---- MODULE Spec2Model ----
(***************************************************************************)
(* Universal Document Q&A System (src/app.py): the per-format extractors,  *)
(* the PDF extraction pipeline (pdfplumber, PyPDF2, pikepdf repair, OCR),  *)
(* the extension dispatcher extract_text_from_document and the batch loop  *)
(* that fills st.session_state.processed_files.                            *)
(*                                                                         *)
(* Text is a sequence of code points, bytes a sequence of 0..255, a file   *)
(* name a sequence of one-character strings.  What the external libraries  *)
(* (pdfplumber, PyPDF2, pikepdf, pdf2image, PaddleOCR) return for a PDF is  *)
(* chosen nondeterministically at the call.                                *)
(***************************************************************************)
EXTENDS Integers, Sequences, FiniteSets, TLC

\* ---------------------------------------------------------------- bounds
\* Longest upload list handed to one script run.
MaxUpload == 2
\* Most pages a PDF library or the rasteriser returns for one document.
MaxPages == 2

\* ------------------------------------------------------ program constants
\* len(''.join(pages).strip()) > 50
MinChars == 50

\* Python's None, as a text and as a section list (code points are >= 0).
NoneText == <<-1>>
NonePages == <<NoneText>>

\* ------------------------------------------------------------ str helpers
\* str.isspace() for one code point, as str.strip() uses it.
IsSpace(c) ==
    \/ c \in 9..13
    \/ c \in 28..32
    \/ c \in {133, 160, 5760, 8232, 8233, 8239, 8287, 12288}
    \/ c \in 8192..8202

RECURSIVE lstrip(_)
lstrip(s) ==
    IF s = <<>> THEN <<>>
    ELSE IF IsSpace(Head(s)) THEN lstrip(Tail(s)) ELSE s

RECURSIVE rstrip(_)
rstrip(s) ==
    IF s = <<>> THEN <<>>
    ELSE IF IsSpace(s[Len(s)]) THEN rstrip(SubSeq(s, 1, Len(s) - 1)) ELSE s

\* str.strip()
strip(s) == rstrip(lstrip(s))

\* sep.join(parts)
RECURSIVE join(_, _)
join(sep, parts) ==
    IF parts = <<>> THEN <<>>
    ELSE IF Len(parts) = 1 THEN parts[1]
    ELSE parts[1] \o sep \o join(sep, Tail(parts))

\* text.split('\n'): the pieces between line feeds, [''] for the empty text.
RECURSIVE split_from(_, _, _)
split_from(s, i, cur) ==
    IF i > Len(s) THEN <<cur>>
    ELSE IF s[i] = 10 THEN <<cur>> \o split_from(s, i + 1, <<>>)
    ELSE split_from(s, i + 1, Append(cur, s[i]))

split_lines(s) == split_from(s, 1, <<>>)

\* [x for x in xs if x]
RECURSIVE truthy_only(_)
truthy_only(xs) ==
    IF xs = <<>> THEN <<>>
    ELSE IF Head(xs) # <<>> THEN <<Head(xs)>> \o truthy_only(Tail(xs))
    ELSE truthy_only(Tail(xs))

\* [x for x in xs if x.strip()]
RECURSIVE nonblank_only(_)
nonblank_only(xs) ==
    IF xs = <<>> THEN <<>>
    ELSE IF strip(Head(xs)) # <<>> THEN <<Head(xs)>> \o nonblank_only(Tail(xs))
    ELSE nonblank_only(Tail(xs))

NL == <<10>>
NLNL == <<10, 10>>

\* n copies of code point c
Rep(c, n) == [i \in 1..n |-> c]

\* ----------------------------------------------------------- bytes.decode
Cont(b) == b \in 128..191

\* Number of bytes of the well-formed UTF-8 sequence starting at b[i], 0 if none.
Utf8Width(b, i) ==
    LET n == Len(b)
        b0 == b[i]
        b1 == IF i + 1 <= n THEN b[i + 1] ELSE 0
        b2 == IF i + 2 <= n THEN b[i + 2] ELSE 0
        b3 == IF i + 3 <= n THEN b[i + 3] ELSE 0
    IN  IF b0 < 128 THEN 1
        ELSE IF b0 \in 194..223 /\ Cont(b1) THEN 2
        ELSE IF b0 = 224 /\ b1 \in 160..191 /\ Cont(b2) THEN 3
        ELSE IF b0 \in (225..236) \cup {238, 239} /\ Cont(b1) /\ Cont(b2) THEN 3
        ELSE IF b0 = 237 /\ b1 \in 128..159 /\ Cont(b2) THEN 3
        ELSE IF b0 = 240 /\ b1 \in 144..191 /\ Cont(b2) /\ Cont(b3) THEN 4
        ELSE IF b0 \in 241..243 /\ Cont(b1) /\ Cont(b2) /\ Cont(b3) THEN 4
        ELSE IF b0 = 244 /\ b1 \in 128..143 /\ Cont(b2) /\ Cont(b3) THEN 4
        ELSE 0

Utf8Point(b, i, w) ==
    IF w = 1 THEN b[i]
    ELSE IF w = 2 THEN (b[i] - 192) * 64 + (b[i + 1] - 128)
    ELSE IF w = 3 THEN (b[i] - 224) * 4096 + (b[i + 1] - 128) * 64 + (b[i + 2] - 128)
    ELSE (b[i] - 240) * 262144 + (b[i + 1] - 128) * 4096
         + (b[i + 2] - 128) * 64 + (b[i + 3] - 128)

\* file_bytes.decode('utf-8'): [ok, text]; ok = FALSE stands for UnicodeDecodeError.
RECURSIVE decode_utf8_from(_, _, _)
decode_utf8_from(b, i, acc) ==
    IF i > Len(b) THEN [ok |-> TRUE, text |-> acc]
    ELSE LET w == Utf8Width(b, i)
         IN  IF w = 0 THEN [ok |-> FALSE, text |-> NoneText]
             ELSE decode_utf8_from(b, i + w, Append(acc, Utf8Point(b, i, w)))

decode_utf8(b) == decode_utf8_from(b, 1, <<>>)

\* Variant of decode_latin1 that rejects the bytes above 127.
decode_ascii(b) == [ok |-> \A i \in 1..Len(b) : b[i] < 128, text |-> b]

\* file_bytes.decode('latin-1'): every byte is its own code point; never raises.
decode_latin1(b) == [ok |-> TRUE, text |-> b]

\* ------------------------------------------------------ extractor results
Result(text, pages) == [full_text |-> text, pages |-> pages, success |-> TRUE]
Failure == [full_text |-> NoneText, pages |-> NonePages, success |-> FALSE]

\* ----------------------------------------------------------------- files
(* An uploaded file: its name, its bytes, and what the container/markup     *)
(* libraries find in those bytes: kind is the format the bytes really are   *)
(* ("docx", "pptx", "xlsx", "epub", "html", "rtf", "pdf" or "other") and    *)
(* parts the units the matching library reads from them.  A container       *)
(* library raises on bytes of any other kind.                               *)
X(n) == Rep(120, n)

PdfBytes == <<37, 80, 68, 70, 255>>

Files ==
    { [name |-> <<"a", ".", "p", "d", "f">>, bytes |-> PdfBytes,
       kind |-> "pdf", parts |-> <<>>],
      [name |-> <<"n", ".", "v", ".", "T", "X", "T">>, bytes |-> <<120>>,
       kind |-> "other", parts |-> <<>>],
      [name |-> <<"n", ".", "v", ".", "T", "X", "T">>, bytes |-> <<255>>,
       kind |-> "other", parts |-> <<>>],
      [name |-> <<"k", ".", "x", "l", "s">>, bytes |-> <<>>,
       kind |-> "other", parts |-> <<>>],
      [name |-> <<"R">>, bytes |-> <<32, 10>>,
       kind |-> "other", parts |-> <<>>] }

\* ------------------------------------------------------------ extractors
extract_from_txt(file) ==
    LET u == decode_utf8(file.bytes)
        l == decode_latin1(file.bytes)
    IN  IF u.ok THEN Result(u.text, <<u.text>>)
        ELSE IF l.ok THEN Result(l.text, <<l.text>>)
        ELSE Failure

extract_from_docx(file) ==
    IF file.kind # "docx" THEN Failure
    ELSE LET paragraphs == nonblank_only(file.parts)
         IN  Result(join(NLNL, paragraphs), paragraphs)

\* parts: one sequence of shape texts per slide
extract_from_pptx(file) ==
    IF file.kind # "pptx" THEN Failure
    ELSE LET slides_text == [i \in 1..Len(file.parts) |-> join(NL, file.parts[i])]
         IN  Result(join(NLNL, slides_text), slides_text)

SheetPrefix == <<83, 104, 101, 101, 116, 58, 32>>

\* parts: one [title, rows] per sheet, a row a sequence of str(cell) texts
extract_from_xlsx(file) ==
    IF file.kind # "xlsx" THEN Failure
    ELSE LET RowTexts(sh) == [r \in 1..Len(sh.rows) |-> join(<<9>>, sh.rows[r])]
             SheetText(sh) == SheetPrefix \o sh.title \o NL
                              \o join(NL, nonblank_only(RowTexts(sh)))
             sheets_text == [i \in 1..Len(file.parts) |-> SheetText(file.parts[i])]
         IN  Result(join(NLNL, sheets_text), sheets_text)

extract_from_csv(file) ==
    LET u == decode_utf8(file.bytes)
        l == decode_latin1(file.bytes)
    IN  IF u.ok THEN Result(u.text, split_lines(u.text))
        ELSE IF l.ok THEN Result(l.text, split_lines(l.text))
        ELSE Failure

\* soup.get_text(separator='\n', strip=True): the stripped non-empty text nodes
\* joined by line feeds; bytes that hold no markup are one text node.
get_text(nodes) ==
    LET kept == nonblank_only(nodes)
    IN  join(NL, [i \in 1..Len(kept) |-> strip(kept[i])])

extract_from_html(file) ==
    LET u == decode_utf8(file.bytes)
    IN  IF ~u.ok THEN Failure
        ELSE LET text == get_text(IF file.kind = "html" THEN file.parts ELSE <<u.text>>)
                 paragraphs == nonblank_only(split_lines(text))
             IN  Result(join(NLNL, paragraphs), paragraphs)

\* rtf_to_text: the document's plain text; on text without control words it
\* drops the raw line breaks and keeps every other character.
RECURSIVE drop_breaks(_)
drop_breaks(s) ==
    IF s = <<>> THEN <<>>
    ELSE IF Head(s) \in {10, 13} THEN drop_breaks(Tail(s))
    ELSE <<Head(s)>> \o drop_breaks(Tail(s))

rtf_to_text(file, rtf_text) ==
    IF file.kind = "rtf" THEN file.parts[1] ELSE drop_breaks(rtf_text)

extract_from_rtf(file) ==
    LET u == decode_utf8(file.bytes)
    IN  IF ~u.ok THEN Failure
        ELSE LET text == rtf_to_text(file, u.text)
             IN  Result(text, split_lines(text))

\* parts: the get_text of each ITEM_DOCUMENT item
extract_from_epub(file) ==
    IF file.kind # "epub" THEN Failure
    ELSE LET chapters == nonblank_only(file.parts)
         IN  Result(join(NLNL, chapters), chapters)

extract_from_md(file) ==
    LET u == decode_utf8(file.bytes)
    IN  IF u.ok THEN Result(u.text, <<u.text>>) ELSE Failure

\* ------------------------------------------------------------ dispatcher
\* str.lower() on the letters a file name is written with
Upper == <<"A", "B", "C", "D", "E", "F", "G", "H", "I", "J", "K", "L", "M",
           "N", "O", "P", "Q", "R", "S", "T", "U", "V", "W", "X", "Y", "Z">>
Lower == <<"a", "b", "c", "d", "e", "f", "g", "h", "i", "j", "k", "l", "m",
           "n", "o", "p", "q", "r", "s", "t", "u", "v", "w", "x", "y", "z">>

lower_char(c) ==
    IF \E i \in 1..26 : Upper[i] = c
    THEN Lower[CHOOSE i \in 1..26 : Upper[i] = c]
    ELSE c

lower(name) == [i \in 1..Len(name) |-> lower_char(name[i])]

\* name.split('.')[-1]: what follows the last '.', the whole name if there is none
RECURSIVE last_piece(_)
last_piece(name) ==
    IF name = <<>> THEN <<>>
    ELSE IF \E i \in 1..Len(name) : name[i] = "." THEN last_piece(Tail(name))
    ELSE name

RECURSIVE to_str(_)
to_str(chars) == IF chars = <<>> THEN "" ELSE Head(chars) \o to_str(Tail(chars))

\* Variant of Ext without the lower-casing.
ExtAsTyped(filename) ==
    IF \E i \in 1..Len(filename) : filename[i] = "."
    THEN to_str(last_piece(filename))
    ELSE ""

\* ext = filename.lower().split('.')[-1] if '.' in filename else ''
Ext(filename) ==
    IF \E i \in 1..Len(filename) : filename[i] = "."
    THEN to_str(last_piece(lower(filename)))
    ELSE ""

\* The extractors dict, in insertion order.
extractors ==
    << [ext |-> "txt", label |-> "TXT", fn |-> "txt"],
       [ext |-> "text", label |-> "TXT", fn |-> "txt"],
       [ext |-> "docx", label |-> "DOCX", fn |-> "docx"],
       [ext |-> "doc", label |-> "DOCX", fn |-> "docx"],
       [ext |-> "pptx", label |-> "PPTX", fn |-> "pptx"],
       [ext |-> "ppt", label |-> "PPTX", fn |-> "pptx"],
       [ext |-> "xlsx", label |-> "XLSX", fn |-> "xlsx"],
       [ext |-> "xls", label |-> "XLSX", fn |-> "xlsx"],
       [ext |-> "csv", label |-> "CSV", fn |-> "csv"],
       [ext |-> "html", label |-> "HTML", fn |-> "html"],
       [ext |-> "htm", label |-> "HTML", fn |-> "html"],
       [ext |-> "rtf", label |-> "RTF", fn |-> "rtf"],
       [ext |-> "epub", label |-> "EPUB", fn |-> "epub"],
       [ext |-> "md", label |-> "Markdown", fn |-> "md"],
       [ext |-> "markdown", label |-> "Markdown", fn |-> "md"],
       [ext |-> "pdf", label |-> "PDF", fn |-> "pdf"] >>

NumExtractors == Len(extractors)

\* ext in extractors
InTable(ext) == \E i \in 1..NumExtractors : extractors[i].ext = ext

\* extractors[ext]
Lookup(ext) == extractors[CHOOSE i \in 1..NumExtractors : extractors[i].ext = ext]

\* extractor(file_bytes) for every extractor but the PDF pipeline
Call(fn, file) ==
    CASE fn = "txt" -> extract_from_txt(file)
      [] fn = "docx" -> extract_from_docx(file)
      [] fn = "pptx" -> extract_from_pptx(file)
      [] fn = "xlsx" -> extract_from_xlsx(file)
      [] fn = "csv" -> extract_from_csv(file)
      [] fn = "html" -> extract_from_html(file)
      [] fn = "rtf" -> extract_from_rtf(file)
      [] fn = "epub" -> extract_from_epub(file)
      [] fn = "md" -> extract_from_md(file)

\* Variant of PrimaryLabel that returns the table key instead of the label.
PrimaryLabelKey(entry) == entry.ext

\* return full_text, pages, True, method_name
PrimaryLabel(entry) == entry.label

\* return full_text, pages, True, f"{method_name} (auto-detected)"
FallbackLabel(entry) == entry.label \o " (auto-detected)"

Returned(res, method) ==
    [full_text |-> res.full_text, pages |-> res.pages,
     success |-> res.success, method |-> method]

NoReturn == Returned(Failure, "")

\* ------------------------------------------------------------------ state
VARIABLES
    processed_files,  \* st.session_state.processed_files: file name -> entry
    tmp_files,        \* the temporary images written since the last click that still exist
    error,            \* the exception that ended the last script run, or "none"
    pc,               \* where the script run is
    unprocessed,      \* line 452
    idx,              \* position of the batch loop in unprocessed, from 1
    successful,
    failed,
    fb,               \* position of the fallback loop in extractors, 0 before it
    result,           \* full_text, pages, success of the last extractor call
    ret,              \* what extract_text_from_document returned
    pages,            \* extract_from_pdf: the OCR tier's pages list
    images,           \* extract_from_pdf: len(images) of convert_from_bytes
    calls,            \* history: the extractors invoked for the current file
    trace,            \* history: the steps extract_from_pdf took for the current file
    pre_store,        \* history: processed_files when the button was clicked
    resubmitted,      \* history: the uploaded names that had an entry at the click
    asked,            \* the last question: the function called and the documents selected
    context,          \* answer_question: context in the last request (a local: <<>> otherwise)
    combined,         \* answer_question_multi_doc: combined in the last request (likewise)
    answer            \* what the last question returned ("" before the first)

vars ==
    <<processed_files, tmp_files, error, pc, unprocessed, idx, successful, failed,
      fb, result, ret, pages, images, calls, trace, pre_store, resubmitted,
      asked, context, combined, answer>>

run_vars == <<unprocessed, idx, successful, failed, pre_store, resubmitted>>
call_vars == <<fb, result, ret, pages, images, calls, trace>>
disk_vars == <<processed_files, tmp_files, error>>
qa_vars == <<asked, context, combined, answer>>

\* All sequences over S of length at most n
SeqsUpTo(S, n) == UNION {[1..k -> S] : k \in 0..n}

\* What one script run can find in the uploader.
Uploads == SeqsUpTo(Files, MaxUpload) \ {<<>>}

\* Variant of Unprocessed without the filter on processed names.
UnprocessedAll(files, store) == files

\* [f for f in uploaded_files if f.name not in st.session_state.processed_files]
Unprocessed(files, store) ==
    SelectSeq(files, LAMBDA f : f.name \notin DOMAIN store)

\* The names among the uploaded files that the filter of line 452 drops.
Resubmitted(files, store) ==
    {files[i].name : i \in 1..Len(files)} \cap DOMAIN store

ResetCall ==
    /\ fb' = 0
    /\ result' = Failure
    /\ ret' = NoReturn
    /\ pages' = <<>>
    /\ images' = 0
    /\ calls' = <<>>
    /\ trace' = <<>>

ResetRun ==
    /\ resubmitted' = {}
    /\ unprocessed' = <<>>
    /\ idx' = 0
    /\ successful' = 0
    /\ failed' = 0
    /\ pre_store' = processed_files

\* No question has been asked.
NoQuestion == [fn |-> "", docs |-> <<>>]

\* Everything but the store: no run under way, no question asked.
Rest ==
    /\ tmp_files = {}
    /\ error = "none"
    /\ pc = "idle"
    /\ resubmitted = {}
    /\ unprocessed = <<>>
    /\ idx = 0
    /\ successful = 0
    /\ failed = 0
    /\ fb = 0
    /\ result = Failure
    /\ ret = NoReturn
    /\ pages = <<>>
    /\ images = 0
    /\ calls = <<>>
    /\ trace = <<>>
    /\ pre_store = <<>>
    /\ asked = NoQuestion
    /\ context = <<>>
    /\ combined = <<>>
    /\ answer = ""

Init ==
    /\ processed_files = <<>>
    /\ Rest

\* An exception no handler caught ends the script run; the session goes on.
Crash(what) ==
    /\ error' = what
    /\ pc' = "idle"
    /\ ResetCall
    /\ ResetRun

\* ------------------------------------------------------------- batch loop
\* A run in which every uploaded file is already processed shows no button.
AllProcessed ==
    /\ pc = "idle"
    /\ \E files \in Uploads : Unprocessed(files, processed_files) = <<>>
    /\ UNCHANGED vars

\* "Process All Files" clicked: lines 452-461.
ClickProcess ==
    /\ pc = "idle"
    /\ UNCHANGED qa_vars
    /\ \E files \in Uploads :
         /\ Unprocessed(files, processed_files) # <<>>
         /\ resubmitted' = Resubmitted(files, processed_files)
         /\ unprocessed' = Unprocessed(files, processed_files)
    /\ idx' = 1
    /\ successful' = 0
    /\ failed' = 0
    /\ pre_store' = processed_files
    /\ error' = "none"
    /\ pc' = "loop"
    /\ tmp_files' = {}
    /\ UNCHANGED processed_files
    /\ UNCHANGED call_vars

\* for idx, file in enumerate(unprocessed): extract_text_from_document(file, ...)
BeginFile ==
    /\ pc = "loop"
    /\ UNCHANGED qa_vars
    /\ idx <= Len(unprocessed)
    /\ pc' = "primary"
    /\ ResetCall
    /\ UNCHANGED run_vars
    /\ UNCHANGED disk_vars

\* The loop is over: line 486.
FinishBatch ==
    /\ pc = "loop"
    /\ UNCHANGED qa_vars
    /\ idx > Len(unprocessed)
    /\ pc' = "idle"
    /\ ResetCall
    /\ ResetRun
    /\ UNCHANGED disk_vars

\* save_log's return value
LogPath(name) == "/home/ubuntu/ocr_logs/" \o to_str(name) \o ".txt"

Entry(name, r) ==
    [full_text |-> r.full_text, pages |-> r.pages, num_pages |-> Len(r.pages),
     log_path |-> LogPath(name), method |-> r.method]

Put(store, name, entry) ==
    [n \in DOMAIN store \cup {name} |-> IF n = name THEN entry ELSE store[n]]

\* if success and full_text:
Accepted(r) == r.success /\ r.full_text # <<>>

\* Lines 468-484.  save_log opens a file under a directory the program never
\* creates: its open() raises when the directory is missing.
Store ==
    /\ pc = "store"
    /\ UNCHANGED qa_vars
    /\ LET file == unprocessed[idx]
       IN  IF Accepted(ret)
           THEN \E log_ok \in BOOLEAN :
                  IF log_ok
                  THEN /\ processed_files' = Put(processed_files, file.name, Entry(file.name, ret))
                       /\ successful' = successful + 1
                       /\ idx' = idx + 1
                       /\ pc' = "loop"
                       /\ UNCHANGED <<failed, unprocessed, pre_store, resubmitted>>
                       /\ UNCHANGED <<tmp_files, error>>
                       /\ UNCHANGED call_vars
                  ELSE /\ Crash("save_log")
                       /\ UNCHANGED <<processed_files, tmp_files>>
           ELSE /\ failed' = failed + 1
                /\ idx' = idx + 1
                /\ pc' = "loop"
                /\ UNCHANGED <<successful, unprocessed, pre_store, resubmitted>>
                /\ UNCHANGED disk_vars
                /\ UNCHANGED call_vars

\* ------------------------------------------- extract_text_from_document
\* History of one extractor call: the extractor, its success flag and, for the
\* PDF pipeline, the step that produced the return value.
Called(fn, r, via) == Append(calls, [fn |-> fn, success |-> r.success, via |-> via])

\* Lines 267-271: the extractor the extension maps to.
Primary ==
    /\ pc = "primary"
    /\ UNCHANGED qa_vars
    /\ LET file == unprocessed[idx]
           ext == Ext(file.name)
       IN  IF ~InTable(ext)
           THEN /\ pc' = "fallback"
                /\ fb' = 1
                /\ UNCHANGED <<result, ret, calls>>
           ELSE IF Lookup(ext).fn = "pdf"
           THEN /\ pc' = "pdf_plumber"
                /\ UNCHANGED <<fb, result, ret, calls>>
           ELSE LET r == Call(Lookup(ext).fn, file)
                IN  /\ result' = r
                    /\ calls' = Called(Lookup(ext).fn, r, "")
                    /\ IF r.success
                       THEN /\ ret' = Returned(r, PrimaryLabel(Lookup(ext)))
                            /\ pc' = "store"
                            /\ fb' = fb
                       ELSE /\ pc' = "fallback"
                            /\ fb' = 1
                            /\ ret' = ret
    /\ UNCHANGED <<pages, images, trace>>
    /\ UNCHANGED run_vars
    /\ UNCHANGED disk_vars

\* Lines 274-285: one turn of the fallback loop, or the return after it.
Fallback ==
    /\ pc = "fallback"
    /\ UNCHANGED qa_vars
    /\ LET file == unprocessed[idx]
       IN  IF fb > NumExtractors
           THEN /\ ret' = Returned(Failure, "failed")
                /\ pc' = "store"
                /\ UNCHANGED <<fb, result, calls>>
           ELSE IF extractors[fb].fn = "pdf"
           THEN /\ pc' = "pdf_plumber"
                /\ UNCHANGED <<fb, result, ret, calls>>
           ELSE LET r == Call(extractors[fb].fn, file)
                IN  /\ result' = r
                    /\ calls' = Called(extractors[fb].fn, r, "")
                    /\ IF r.success
                       THEN /\ ret' = Returned(r, FallbackLabel(extractors[fb]))
                            /\ pc' = "store"
                            /\ fb' = fb
                       ELSE /\ fb' = fb + 1
                            /\ pc' = "fallback"
                            /\ ret' = ret
    /\ UNCHANGED <<pages, images, trace>>
    /\ UNCHANGED run_vars
    /\ UNCHANGED disk_vars

\* extract_from_pdf has returned into line 269 (fb = 0) or line 277.
PdfReturn ==
    /\ pc = "pdf_ret"
    /\ UNCHANGED qa_vars
    /\ calls' = Called("pdf", result, IF result.success THEN trace[Len(trace)].tier ELSE "")
    /\ trace' = <<>>
    /\ pages' = <<>>
    /\ images' = 0
    /\ IF fb = 0
       THEN IF result.success
            THEN /\ ret' = Returned(result, PrimaryLabel(Lookup(Ext(unprocessed[idx].name))))
                 /\ pc' = "store"
                 /\ fb' = fb
            ELSE /\ pc' = "fallback"
                 /\ fb' = 1
                 /\ ret' = ret
       ELSE IF result.success
            THEN /\ ret' = Returned(result, FallbackLabel(extractors[fb]))
                 /\ pc' = "store"
                 /\ fb' = fb
            ELSE /\ fb' = fb + 1
                 /\ pc' = "fallback"
                 /\ ret' = ret
    /\ UNCHANGED result
    /\ UNCHANGED run_vars
    /\ UNCHANGED disk_vars

\* ------------------------------------------------------- extract_from_pdf
\* What page.extract_text() can return for one page (<<>>: None or '').
PageTexts == {<<>>, <<32>>, X(MinChars)}

\* What opening the bytes and reading every page does: it raises, or yields
\* the texts of the pages.
LibOutcomes ==
    {[raise |-> TRUE, texts |-> <<>>]}
    \cup {[raise |-> FALSE, texts |-> t] : t \in SeqsUpTo(PageTexts, MaxPages)}

\* A line of a PaddleOCR page result: [box, (text, confidence)]
Line(text) == <<0, <<text, 1>>>>

\* What ocr_model.ocr(tmp.name, cls=True) can return: None, [None], or one
\* list of lines (a line may be empty).
OcrResults ==
    { <<>>, <<<<>>>>, <<<<Line(X(MinChars)), <<>>, Line(X(1))>>>> }

\* Lines 217-221: the texts of the well-formed lines of the page result.
RECURSIVE line_texts(_)
line_texts(lines) ==
    IF lines = <<>> THEN <<>>
    ELSE IF Head(lines) # <<>> /\ Len(Head(lines)) > 1 /\ Head(lines)[2] # <<>>
         THEN <<Head(lines)[2][1]>> \o line_texts(Tail(lines))
         ELSE line_texts(Tail(lines))

page_text(ocr_result) ==
    IF ocr_result # <<>> /\ ocr_result[1] # <<>>
    THEN line_texts(ocr_result[1])
    ELSE <<>>

\* Variant of PdfSuccess without the length test.
PdfSuccessAnyPage(pg) == pg # <<>>

\* if pages and len(''.join(pages).strip()) > 50
PdfSuccess(pg) == pg # <<>> /\ Len(strip(join(<<>>, pg))) > MinChars

\* return '\n\n'.join(pages), pages, True
PdfResult(pg) == Result(join(NLNL, pg), pg)

\* Variant of Caught in which the OCR tier has no handler.
CaughtTextOnly(tier) == tier \in {"pdfplumber", "PyPDF2", "repair"}

\* The bare "except: pass" that closes each tier's try block
\* (lines 173, 186, 206, 229) catches every exception.
Caught(tier) == tier \in {"pdfplumber", "PyPDF2", "repair", "ocr"}

\* An exception that leaves extract_from_pdf: line 269 has no handler,
\* line 282 has one (continue).
Escape(what) ==
    IF fb = 0
    THEN Crash(what)
    ELSE /\ pc' = "fallback"
         /\ fb' = fb + 1
         /\ error' = error
         /\ UNCHANGED <<result, ret, pages, images, calls, trace>>
         /\ UNCHANGED run_vars

\* A history entry: the step, whether it returned a result, whether it raised,
\* and the pages it returned.
Ev(tier, ok, raised, out) == [tier |-> tier, ok |-> ok, raised |-> raised, out |-> out]

\* The step fell through to `next` (after its handler, when it raised).
FallThrough(tier, raised, next) ==
    /\ pc' = next
    /\ trace' = Append(trace, Ev(tier, FALSE, raised, <<>>))
    /\ error' = error
    /\ UNCHANGED <<fb, result, ret, pages, images, calls>>
    /\ UNCHANGED run_vars

\* The tier returned pg.
TierReturns(tier, pg) ==
    /\ result' = PdfResult(pg)
    /\ pc' = "pdf_ret"
    /\ trace' = Append(trace, Ev(tier, TRUE, FALSE, pg))
    /\ error' = error
    /\ UNCHANGED <<fb, ret, pages, images, calls>>
    /\ UNCHANGED run_vars

\* Variant of TextTier with the return statement missing: a tier that finds
\* enough text keeps its result but the pipeline goes on to the next tier.
TextTierNoReturn(here, tier, handler, next) ==
    /\ pc = here
    /\ UNCHANGED qa_vars
    /\ \E o \in LibOutcomes :
         IF o.raise
         THEN FallThrough(tier, TRUE, next)
         ELSE IF PdfSuccess(truthy_only(o.texts))
              THEN /\ result' = PdfResult(truthy_only(o.texts))
                   /\ pc' = next
                   /\ trace' = Append(trace, Ev(tier, TRUE, FALSE, truthy_only(o.texts)))
                   /\ error' = error
                   /\ UNCHANGED <<fb, ret, pages, images, calls>>
                   /\ UNCHANGED run_vars
              ELSE FallThrough(tier, FALSE, next)
    /\ UNCHANGED <<processed_files, tmp_files>>

\* A text-layer tier: open, collect the pages that have text, test, return.
TextTier(here, tier, handler, next) ==
    /\ pc = here
    /\ UNCHANGED qa_vars
    /\ \E o \in LibOutcomes :
         IF o.raise
         THEN IF Caught(handler) THEN FallThrough(tier, TRUE, next) ELSE Escape(tier)
         ELSE IF PdfSuccess(truthy_only(o.texts))
              THEN TierReturns(tier, truthy_only(o.texts))
              ELSE FallThrough(tier, FALSE, next)
    /\ UNCHANGED <<processed_files, tmp_files>>

\* Lines 164-174.
PdfPlumber == TextTier("pdf_plumber", "pdfplumber", "pdfplumber", "pdf_pypdf2")

\* Lines 177-187.
PdfPyPDF2 == TextTier("pdf_pypdf2", "PyPDF2", "PyPDF2", "pdf_repair")

\* Lines 190-195: pikepdf opens and rewrites the bytes, or raises.
PdfRepair ==
    /\ pc = "pdf_repair"
    /\ UNCHANGED qa_vars
    /\ \E repaired \in BOOLEAN :
         IF repaired THEN FallThrough("repair", FALSE, "pdf_repaired")
         ELSE IF Caught("repair") THEN FallThrough("repair", TRUE, "pdf_raster")
         ELSE Escape("repair")
    /\ UNCHANGED <<processed_files, tmp_files>>

\* Lines 198-207: pdfplumber on the repaired bytes, inside the repair try block.
PdfRepaired == TextTier("pdf_repaired", "repair+pdfplumber", "repair", "pdf_raster")

\* The OCR tier's handler ran: pass, then return None, None, False (line 232).
OcrRaised(step) ==
    /\ result' = Failure
    /\ pc' = "pdf_ret"
    /\ trace' = Append(trace, Ev(step, FALSE, TRUE, <<>>))
    /\ error' = error
    /\ UNCHANGED <<fb, ret, pages, images, calls>>
    /\ UNCHANGED run_vars

\* Line 211: convert_from_bytes yields one image per page, or raises.
PdfRaster ==
    /\ pc = "pdf_raster"
    /\ UNCHANGED qa_vars
    /\ \/ \E n \in 0..MaxPages :
            /\ images' = n
            /\ pages' = <<>>
            /\ pc' = "pdf_ocr"
            /\ trace' = Append(trace, Ev("rasterize", FALSE, FALSE, <<>>))
            /\ error' = error
            /\ UNCHANGED <<fb, result, ret, calls>>
            /\ UNCHANGED run_vars
       \/ IF Caught("ocr") THEN OcrRaised("rasterize") ELSE Escape("rasterize")
    /\ UNCHANGED <<processed_files, tmp_files>>

\* The name NamedTemporaryFile(delete=False, suffix='.png') picks: an unused one.
NewTmp == CHOOSE n \in 1..(Cardinality(tmp_files) + 1) : n \notin tmp_files

\* os.unlink(tmp.name) inside its own try/except
Unlink(files, t) == files \ {t}

\* Lines 213-226: one page image: write it to a new temporary file, recognise
\* it, append the page text, unlink the file.  image.save or ocr_model.ocr can
\* raise; the only handler around them is the tier's, at line 229.
PdfOcrPage ==
    /\ pc = "pdf_ocr"
    /\ UNCHANGED qa_vars
    /\ Len(pages) < images
    /\ \/ \E r \in OcrResults :
            /\ pages' = Append(pages, join(NL, page_text(r)))
            /\ tmp_files' = Unlink(tmp_files \cup {NewTmp}, NewTmp)
            /\ pc' = "pdf_ocr"
            /\ trace' = Append(trace, Ev("ocr", FALSE, FALSE, <<>>))
            /\ error' = error
            /\ UNCHANGED <<fb, result, ret, images, calls>>
            /\ UNCHANGED run_vars
       \/ \E step \in {"save", "ocr"} :
            /\ tmp_files' = tmp_files \cup {NewTmp}
            /\ IF Caught("ocr") THEN OcrRaised(step) ELSE Escape(step)
    /\ UNCHANGED processed_files

\* Lines 227-232: the loop is over.
PdfOcrEnd ==
    /\ pc = "pdf_ocr"
    /\ UNCHANGED qa_vars
    /\ Len(pages) = images
    /\ IF PdfSuccess(pages)
       THEN TierReturns("ocr_end", pages)
       ELSE /\ result' = Failure
            /\ pc' = "pdf_ret"
            /\ trace' = Append(trace, Ev("ocr_end", FALSE, FALSE, <<>>))
            /\ error' = error
            /\ UNCHANGED <<fb, ret, pages, images, calls>>
            /\ UNCHANGED run_vars
    /\ UNCHANGED <<processed_files, tmp_files>>

\* ------------------------------------------------------ question answering
MaxDocs == 4

\* max_context_chars of answer_question
max_context_chars == 20000

\* answer_question_multi_doc: context[:5000] and the 20000 of lines 316-317
DocChars == 5000
MaxCombined == 20000

\* "\n\n[... truncated ...]"
Truncated ==
    <<10, 10, 91, 46, 46, 46, 32, 116, 114, 117, 110, 99, 97, 116, 101, 100,
      32, 46, 46, 46, 93>>

\* s[:n]
slice(s, n) == IF Len(s) <= n THEN s ELSE SubSeq(s, 1, n)

\* The code points of the characters a document name is written with
Chars ==
    <<"d", "0", "1", "2", "3", "4", "5", "6", "7", "8", "9">>
Codes ==
    <<100, 48, 49, 50, 51, 52, 53, 54, 55, 56, 57>>

ord(c) == Codes[CHOOSE i \in 1..Len(Chars) : Chars[i] = c]

\* f"{filename}"
str(filename) == [i \in 1..Len(filename) |-> ord(filename[i])]

\* Variant of cut that passes every context on whole.
whole(text, limit) == text

\* Lines 293-294 and 316-317: a text longer than the limit is replaced by its
\* first limit characters and the marker.
cut(text, limit) ==
    IF Len(text) > limit THEN slice(text, limit) \o Truncated ELSE text

\* Variant of doc_block without the per-document slice.
doc_block_whole(filename, text) ==
    NLNL \o <<61, 61, 61, 32>> \o str(filename) \o <<32, 61, 61, 61>> \o NL
    \o text \o NL

\* f"\n\n=== {filename} ===\n{context[:5000]}\n"
doc_block(filename, text) ==
    NLNL \o <<61, 61, 61, 32>> \o str(filename) \o <<32, 61, 61, 61>> \o NL
    \o slice(text, DocChars) \o NL

\* Lines 312-314: combined after the loop over docs_context.items()
RECURSIVE all_blocks(_)
all_blocks(items) ==
    IF items = <<>> THEN <<>>
    ELSE LET n == Len(items)
         IN  all_blocks(SubSeq(items, 1, n - 1))
             \o doc_block(items[n].filename, items[n].context)

\* The names of the documents of a store of n documents: d1, d2, ...
DocName(i) == <<"d", Chars[i + 2]>>

\* The text of a document: its k-th character tells the document and k mod 256.
Text(doc, n) == [k \in 1..n |-> 256 * doc + (k % 256)]

\* Lengths around the two limits; with 4944 and 4945 four blocks make 20000
\* and 20001 characters.
TextLens == {0, 4944, 4945, 5000, 5001, 8000, 19999, 20000, 20001, 25000}

\* A store of n text documents as the batch loop leaves it: the first n - 1
\* documents have 8000 characters, the last one `last`.
TextStore(n, last) ==
    [name \in {DocName(i) : i \in 1..n} |->
        LET i == CHOOSE j \in 1..n : DocName(j) = name
            text == Text(i, IF i = n THEN last ELSE 8000)
        IN  Entry(name, Returned(Result(text, <<text>>), "TXT"))]

Stores == {TextStore(n, last) : n \in 1..MaxDocs, last \in TextLens}

\* The numbers of S in increasing order
RECURSIVE ascending(_)
ascending(S) ==
    IF S = {} THEN <<>>
    ELSE LET least == CHOOSE x \in S : \A y \in S : x <= y
         IN  <<least>> \o ascending(S \ {least})

reversed(s) == [i \in 1..Len(s) |-> s[Len(s) + 1 - i]]

\* What "Use all documents" or the multiselect can hand over: the names of
\* some documents of a store of n documents, each once, in the order of the
\* store or picked from the last to the first.
Selections(n) ==
    UNION {LET sel == [i \in 1..Cardinality(S) |-> DocName(ascending(S)[i])]
           IN  {sel, reversed(sel)} : S \in (SUBSET (1..n)) \ {{}}}

\* Lines 743-751 and 289-307: the search button of a script run, one document
\* selected, its full text is the context; the gateway call returns the answer
\* or raises.
answer_question ==
    /\ pc = "idle"
    /\ asked = NoQuestion
    /\ \E selected \in DOMAIN processed_files, replied \in BOOLEAN :
         /\ asked' = [fn |-> "answer_question", docs |-> <<selected>>]
         /\ context' = cut(processed_files[selected].full_text, max_context_chars)
         /\ answer' = IF replied THEN "content" ELSE "Error"
    /\ combined' = <<>>
    /\ UNCHANGED disk_vars
    /\ UNCHANGED run_vars
    /\ UNCHANGED call_vars
    /\ UNCHANGED pc

\* The script run that answered a question is over; the next run starts with
\* no button clicked.
NextRun ==
    /\ pc = "idle"
    /\ asked # NoQuestion
    /\ asked' = NoQuestion
    /\ context' = <<>>
    /\ combined' = <<>>
    /\ answer' = ""
    /\ UNCHANGED disk_vars
    /\ UNCHANGED run_vars
    /\ UNCHANGED call_vars
    /\ UNCHANGED pc

\* {d: st.session_state.processed_files[d]['full_text'] for d in selected_docs}
docs_ctx(selected_docs) ==
    [i \in 1..Len(selected_docs) |->
        [filename |-> selected_docs[i],
         context |-> processed_files[selected_docs[i]].full_text]]

\* Lines 757-769 and 309-330.
answer_question_multi_doc ==
    /\ pc = "idle"
    /\ asked = NoQuestion
    /\ \E selected_docs \in Selections(Cardinality(DOMAIN processed_files)), replied \in BOOLEAN :
         /\ asked' = [fn |-> "answer_question_multi_doc", docs |-> selected_docs]
         /\ combined' = cut(all_blocks(docs_ctx(selected_docs)), MaxCombined)
         /\ answer' = IF replied THEN "content" ELSE "Error"
    /\ context' = <<>>
    /\ UNCHANGED disk_vars
    /\ UNCHANGED run_vars
    /\ UNCHANGED call_vars
    /\ UNCHANGED pc

\* ------------------------------------------------------------------- spec
Next ==
    \/ AllProcessed
    \/ ClickProcess
    \/ BeginFile
    \/ FinishBatch
    \/ Primary
    \/ Fallback
    \/ PdfPlumber
    \/ PdfPyPDF2
    \/ PdfRepair
    \/ PdfRepaired
    \/ PdfRaster
    \/ PdfOcrPage
    \/ PdfOcrEnd
    \/ PdfReturn
    \/ Store

Spec == Init /\ [][Next]_vars

\* Questions asked of a store of text documents.
InitQA ==
    /\ processed_files \in Stores
    /\ Rest

NextQA ==
    \/ answer_question
    \/ answer_question_multi_doc
    \/ NextRun

SpecQA == InitQA /\ [][NextQA]_vars

\* ----------------------------------------------------------------- claims
InPipeline ==
    pc \in {"pdf_plumber", "pdf_pypdf2", "pdf_repair", "pdf_repaired", "pdf_raster", "pdf_ocr"}

Tiers(tr) == {tr[i].tier : i \in 1..Len(tr)}

DirectTiers == {"pdfplumber", "PyPDF2"}
OcrSteps == {"rasterize", "save", "ocr", "ocr_end"}

\* The steps that may directly follow a step that returned nothing.
After(tier) ==
    CASE tier = "pdfplumber" -> {"PyPDF2"}
      [] tier = "PyPDF2" -> {"repair"}
      [] tier = "repair" -> {"repair+pdfplumber", "rasterize"}
      [] tier = "repair+pdfplumber" -> {"rasterize"}
      [] tier \in {"rasterize", "ocr"} -> {"save", "ocr", "ocr_end"}
      [] OTHER -> {}

\* C1: extract_from_pdf tries pdfplumber, then PyPDF2, then the repair, then
\* OCR, in that order and starting with pdfplumber; no step follows a step that
\* returned a result; the value returned is the result of the step that
\* succeeded; and when pdfplumber or PyPDF2 succeeds on the original bytes,
\* neither the repair nor OCR has been started.
C1_TierOrder ==
    /\ trace # <<>> => trace[1].tier = "pdfplumber"
    /\ \A i \in 1..(Len(trace) - 1) :
         /\ ~trace[i].ok
         /\ trace[i + 1].tier \in After(trace[i].tier)
    /\ \A i \in 1..Len(trace) :
         trace[i].ok /\ trace[i].tier \in DirectTiers
         => /\ Tiers(trace) \subseteq DirectTiers
            /\ pc = "pdf_ret"
            /\ result = Result(join(NLNL, trace[i].out), trace[i].out)

\* C1 witness: PyPDF2 succeeded after pdfplumber raised, and the pipeline has
\* returned its pages.
C1_Witness ==
    /\ pc = "pdf_ret"
    /\ result.success
    /\ Len(trace) = 2
    /\ trace[1].raised
    /\ trace[2].tier = "PyPDF2"
    /\ trace[2].ok

\* The first extractor called for the current file was the PDF pipeline, for a
\* file whose extension is pdf, and every tier of it failed.
PdfExhausted ==
    /\ calls # <<>>
    /\ calls[1].fn = "pdf"
    /\ ~calls[1].success

\* C2: when every tier of the PDF pipeline fails for a file with extension
\* pdf, extract_text_from_document returns success = false with the label
\* "failed", the batch loop counts the file as failed and the store gets no
\* entry for its name.
C2_ExhaustedPdfFails ==
    /\ pc = "store" /\ PdfExhausted /\ Ext(unprocessed[idx].name) = "pdf"
       => ~ret.success /\ ret.method = "failed"
    /\ pc = "loop" /\ idx > 1 /\ PdfExhausted
       => failed >= 1 /\ unprocessed[idx - 1].name \notin DOMAIN processed_files

\* The current file's result came from pdfplumber on the repaired bytes (both
\* direct tiers failed on the original bytes before the repair was tried).
FromRepaired ==
    /\ pc = "store"
    /\ calls # <<>>
    /\ calls[1].fn = "pdf"
    /\ calls[1].via = "repair+pdfplumber"

RepairLabels ==
    {"repair+pdfplumber", "repair+PyPDF2", "repairA+pdfplumber", "repairA+PyPDF2",
     "repairB+pdfplumber", "repairB+PyPDF2"}

C4_TempFilesDeleted == ~InPipeline => tmp_files = {}

OcrCalls == {i \in 1..Len(trace) : trace[i].tier = "ocr"}

\* C5: when recognition raised for a page, every page image was still handed
\* to recognition and has a section (the failed page an empty one), and the
\* OCR result fails only if the pages together do not exceed the threshold.
C5_RaisedPageIsEmptySection ==
    pc = "pdf_ret" /\ (\E i \in OcrCalls : trace[i].raised)
    => /\ Cardinality(OcrCalls) = images
       /\ Len(pages) = images
       /\ result.success <=> PdfSuccess(pages)

\* Where the pipeline goes on after a step raised.
PcAfterRaise(tier) ==
    CASE tier = "pdfplumber" -> "pdf_pypdf2"
      [] tier = "PyPDF2" -> "pdf_repair"
      [] tier \in {"repair", "repair+pdfplumber"} -> "pdf_raster"
      [] OTHER -> "pdf_ret"

TierAfterRaise(tier) ==
    CASE tier = "pdfplumber" -> {"PyPDF2"}
      [] tier = "PyPDF2" -> {"repair"}
      [] tier \in {"repair", "repair+pdfplumber"} -> {"rasterize"}
      [] OTHER -> {}

\* C6: no exception raised inside extract_from_pdf ends the script run; a step
\* that raised is followed by the next tier (the OCR tier, the last one, by the
\* return); and a failure is returned only as (None, None, False), after
\* pdfplumber, PyPDF2, the repair and the OCR tier have all been tried.
C6_NoExceptionEscapes ==
    /\ error \in {"none", "save_log"}
    /\ \A i \in 1..Len(trace) :
         trace[i].raised
         => IF i < Len(trace)
            THEN trace[i + 1].tier \in TierAfterRaise(trace[i].tier)
            ELSE pc = PcAfterRaise(trace[i].tier)
    /\ pc = "pdf_ret" /\ ~result.success
       => /\ result = Failure
          /\ {"pdfplumber", "PyPDF2", "repair"} \subseteq Tiers(trace)
          /\ Tiers(trace) \cap OcrSteps # {}

\* C6 witness: all four tiers raised and the pipeline returned the failure.
C6_Witness ==
    /\ pc = "pdf_ret"
    /\ result = Failure
    /\ Len(trace) = 4
    /\ \A i \in 1..4 : trace[i].raised

\* C7: a file name that already has an entry when the button is clicked is not
\* among the files the run extracts, and its entry stays what it was.
C7_ResubmissionIdempotent ==
    \A n \in resubmitted :
        /\ n \in DOMAIN pre_store
        /\ n \in DOMAIN processed_files
        /\ processed_files[n] = pre_store[n]
        /\ \A i \in 1..Len(unprocessed) : unprocessed[i].name # n

\* C7 witness: a run that was handed an already processed name together with
\* a new file has finished its loop and stored the new file.
C7_Witness ==
    /\ pc = "loop"
    /\ idx > Len(unprocessed)
    /\ resubmitted # {}
    /\ successful >= 1

\* C8: a store entry, once inserted, is never changed or removed.
C8_WrittenOnce ==
    [][\A n \in DOMAIN processed_files :
          /\ n \in DOMAIN processed_files'
          /\ processed_files'[n] = processed_files[n]]_vars

\* C9 as stated: every successful extractor result has a full text whose
\* trimmed length is greater than 0.
C9_SuccessHasText == result.success => Len(strip(result.full_text)) > 0

\* C9 as amended: every successful result of the PDF pipeline has a full text
\* whose trimmed length is greater than 50, hence greater than 0.
C9_PdfSuccessHasText ==
    pc = "pdf_ret" /\ result.success => Len(strip(result.full_text)) > MinChars

\* C9 witness: the OCR tier returned a result whose first page is empty.
C9_Witness ==
    /\ pc = "pdf_ret"
    /\ result.success
    /\ trace[Len(trace)].tier = "ocr_end"
    /\ result.pages[1] = <<>>

\* The extension as the claim states it: the text after the last '.',
\* lower-cased, empty when the name has no '.'.
IsExtOf(e, name) ==
    \/ /\ \A i \in 1..Len(name) : name[i] # "."
       /\ e = ""
    \/ \E k \in 1..Len(name) :
         /\ name[k] = "."
         /\ \A j \in (k + 1)..Len(name) : name[j] # "."
         /\ e = to_str(lower(SubSeq(name, k + 1, Len(name))))

\* The fallback calls fbc are the table's extractors in table order up to the
\* first success, and the return value is that success with the label
\* "<label> (auto-detected)" (or the failure when all sixteen failed).
FallbackAsClaimed(fbc) ==
    /\ fbc # <<>>
    /\ Len(fbc) <= NumExtractors
    /\ \A i \in 1..Len(fbc) : fbc[i].fn = extractors[i].fn
    /\ \A i \in 1..(Len(fbc) - 1) : ~fbc[i].success
    /\ IF fbc[Len(fbc)].success
       THEN /\ ret.success
            /\ ret.method = extractors[Len(fbc)].label \o " (auto-detected)"
            /\ ret.full_text = result.full_text
       ELSE /\ Len(fbc) = NumExtractors
            /\ ~ret.success

\* C10: routing by extension.  If the extension is in the table and the mapped
\* extractor succeeds, it is the only extractor called and the result carries
\* the canonical label; otherwise the extractors are tried in table order and
\* the first success is returned as "<label> (auto-detected)".
C10_Routing ==
    pc = "store"
    => \E e \in {Ext(unprocessed[idx].name)} \cup {extractors[i].ext : i \in 1..NumExtractors} :
         /\ IsExtOf(e, unprocessed[idx].name)
         /\ IF InTable(e) /\ calls[1].success
            THEN /\ calls = <<[fn |-> Lookup(e).fn, success |-> TRUE, via |-> calls[1].via]>>
                 /\ ret.success
                 /\ ret.method = Lookup(e).label
                 /\ ret.full_text = result.full_text
            ELSE IF InTable(e)
            THEN /\ calls[1].fn = Lookup(e).fn
                 /\ FallbackAsClaimed(Tail(calls))
            ELSE FallbackAsClaimed(calls)

\* C10 witness: the extension is in the table, the mapped extractor failed and
\* the fallback returned the TXT extractor's result.
C10_Witness ==
    /\ pc = "store"
    /\ Ext(unprocessed[idx].name) = "xls"
    /\ Len(calls) = 2
    /\ ~calls[1].success
    /\ ret.method = "TXT (auto-detected)"

\* C11: a batch run ends only after every file of the unprocessed list has
\* been attempted, with successful + failed equal to the number of unprocessed
\* files, whatever happened to the single files.
C11_BatchNeverAborts ==
    [][pc # "idle" /\ pc' = "idle"
       => /\ idx > Len(unprocessed)
          /\ successful + failed = Len(unprocessed)]_vars

\* The repair produced repaired bytes.
RepairSucceeded ==
    \E i \in 1..Len(trace) : trace[i].tier = "repair" /\ ~trace[i].raised

\* C12: after a successful repair, OCR is started only when both pdfplumber
\* and PyPDF2 have been run against the repaired bytes.
C12_BothTiersOnRepaired ==
    pc \in {"pdf_raster", "pdf_ocr"} /\ RepairSucceeded
    => {"repair+pdfplumber", "repair+PyPDF2"} \subseteq Tiers(trace)

\* C15: the fallback loop never gets past its first entry: whenever it ran,
\* extract_text_from_document returns the TXT extractor's result for the
\* file's bytes, successful and labelled "TXT (auto-detected)"; the PDF
\* pipeline is never entered from the fallback loop and the label "failed" is
\* never returned.
C15_FallbackReturnsTxt ==
    /\ fb <= 1
    /\ InPipeline => fb = 0
    /\ ret.method # "failed"
    /\ pc = "store" /\ fb = 1
       => /\ calls[Len(calls)] = [fn |-> "txt", success |-> TRUE, via |-> ""]
          /\ result = extract_from_txt(unprocessed[idx])
          /\ ret = Returned(result, "TXT (auto-detected)")
          /\ ret.success

\* C15 witness: the fallback loop ran for bytes that are not UTF-8, after the
\* mapped extractor failed, and the Latin-1 text has been returned.
C15_Witness ==
    /\ pc = "store"
    /\ fb = 1
    /\ Len(calls) = 2
    /\ ~decode_utf8(unprocessed[idx].bytes).ok
    /\ ret.full_text = unprocessed[idx].bytes

\* C13: answer_question passes a context of at most 20,000 characters on as
\* it is; a longer one is replaced by its first 20,000 characters followed by
\* the truncation marker, never passed whole; the store is left as it was.
C13_SingleContext ==
    [][asked'.fn = "answer_question"
       => LET full == processed_files[asked'.docs[1]].full_text
          IN  /\ processed_files' = processed_files
              /\ IF Len(full) <= 20000
                 THEN context' = full
                 ELSE /\ Len(context') = 20000 + Len(Truncated)
                      /\ SubSeq(context', 1, 20000) = SubSeq(full, 1, 20000)
                      /\ SubSeq(context', 20001, Len(context')) = Truncated
                      /\ context' # full]_vars

\* C13 witness: a document of 25,000 characters was asked about and the
\* request carried 20,000 characters and the marker.
C13_Witness ==
    /\ asked.fn = "answer_question"
    /\ Len(processed_files[asked.docs[1]].full_text) = 25000
    /\ Len(context) = 20000 + Len(Truncated)
    /\ answer = "content"

Min(a, b) == IF a < b THEN a ELSE b

\* Length of the header "\n\n=== <name> ===\n" of a document's block
HeaderLen(name) == 11 + Len(name)

\* Number of characters a document's text contributes to its block
TextLen(name) == Min(Len(processed_files[name].full_text), 5000)

\* Where the block of the i-th selected document starts in the combined
\* string (the number of characters before it).
RECURSIVE Offset(_, _)
Offset(sel, i) ==
    IF i = 1 THEN 0
    ELSE Offset(sel, i - 1) + HeaderLen(sel[i - 1]) + TextLen(sel[i - 1]) + 1

\* C14: answer_question_multi_doc lays the selected documents out in the
\* order of selection, each as a header with its name followed by the first
\* 5,000 characters of its full text (the whole text when shorter); the
\* combined string is passed on as it is when it has at most 20,000
\* characters, and otherwise it is its first 20,000 characters followed by
\* the truncation marker.
C14_MultiContext ==
    [][asked'.fn = "answer_question_multi_doc"
       => LET sel == asked'.docs
              total == Offset(sel, Len(sel) + 1)
              kept == Min(total, 20000)
          IN  /\ processed_files' = processed_files
              /\ Len(combined') = IF total > 20000 THEN 20000 + Len(Truncated) ELSE total
              /\ total > 20000 => SubSeq(combined', 20001, Len(combined')) = Truncated
              /\ \A i \in 1..Len(sel) :
                   LET o == Offset(sel, i)
                       h == HeaderLen(sel[i])
                       name_to == Min(o + 6 + Len(sel[i]), kept)
                       text_to == Min(o + h + TextLen(sel[i]), kept)
                   IN  /\ SubSeq(combined', o + 7, name_to)
                          = SubSeq(str(sel[i]), 1, name_to - (o + 6))
                       /\ SubSeq(combined', o + h + 1, text_to)
                          = SubSeq(processed_files[sel[i]].full_text, 1, text_to - (o + h))]_vars

\* C14 witness: three documents of 8,000 characters were selected and the
\* request carried three blocks of 5,000 text characters each.
C14_Witness ==
    /\ asked.fn = "answer_question_multi_doc"
    /\ Len(asked.docs) = 3
    /\ \A i \in 1..3 : Len(processed_files[asked.docs[i]].full_text) = 8000
    /\ Len(combined) = 3 * (13 + 5000 + 1)

====
